---- MODULE Spec2Model ----
(***************************************************************************)
(* Server side monitored item of an OPC UA server                          *)
(* (lib/server/monitored_item.js): one MonitoredItem bound to one node     *)
(* attribute, its sampler (interval timer, value_changed listener or       *)
(* attribute listener), its data change filter, its notification queue,    *)
(* and the environment that drives it: the node, the timer wheel, the      *)
(* pending asynchronous reads and the owning subscription's calls.         *)
(***************************************************************************)
EXTENDS Integers, Sequences, FiniteSets, TLC

VARIABLES
    attributeId,        \* itemToMonitor.attributeId: "Value" or another attribute
    indexRange,         \* itemToMonitor.indexRange: "none" or a range "r"
    filter,             \* self.filter (null is NoFilter)
    monitoringMode,     \* self.monitoringMode
    clientHandle,       \* self.clientHandle
    samplingInterval,   \* self.samplingInterval
    discardOldest,      \* self.discardOldest
    queueSize,          \* self.queueSize
    timestampsToReturn, \* self.timestampsToReturn
    queue,              \* self.queue: sequence of queued DataValue objects
    overflow,           \* self.overflow
    oldDataValue,       \* self.oldDataValue (content of the object referred to)
    samplingId,         \* self._samplingId: 0 (null) or the handle of the interval timer
    value_changed_callback,      \* self._value_changed_callback is set
    attribute_changed_callback,  \* self._attribute_changed_callback is set
    is_sampling,        \* self._is_sampling
    timers,             \* interval timers installed by setInterval and not cleared
    valueListeners,     \* number of "value_changed" listeners of the item on the node
    attrListeners,      \* number of attribute event listeners of the item on the node
    registryCount,      \* g_running_MonitoredItem.count()
    pendingReads,       \* readValueAsync calls whose callback has not run yet
    sampleInFlight,     \* samplingFunc was called and its callback has not run yet
    nodeValue,          \* the DataValue the node currently holds for the attribute
    sourceReadings,     \* the DataValues the node may take (fixed per behaviour)
    paramRequests,      \* the MonitoringParameters clients may send (fixed per behaviour)
    nodes,              \* the multi-state value discrete variables of the address space
    last                \* the last call made on the item, its arguments and result

vars == <<attributeId, indexRange, filter, monitoringMode, clientHandle,
          samplingInterval, discardOldest, queueSize, timestampsToReturn, queue,
          overflow, oldDataValue, samplingId, value_changed_callback,
          attribute_changed_callback, is_sampling, timers, valueListeners,
          attrListeners, registryCount, pendingReads, sampleInFlight, nodeValue,
          sourceReadings, paramRequests, nodes, last>>

----------------------------------------------------------------------------
(* Bounds of the model *)

\* longest queue the model lets grow (a queue that is full keeps receiving)
MaxQueueLen == 3
\* readValueAsync calls that may be outstanding at once
MaxPendingReads == 1

(* Program constants *)
minimumSamplingInterval == 50
maximumSamplingInterval == 3600000
maxQueueSize == 5000

----------------------------------------------------------------------------
(* Data values *)

Good                == "Good"
GoodWithOverflowBit == "GoodWithOverflowBit"
BadOutOfRange       == "BadOutOfRange"
BadDataUnavailable  == "BadDataUnavailable"

\* value of a DataValue built without a value: new DataValue({statusCode: ...})
NullValue == [dataType |-> "Null", high |-> 0, value |-> 0]

\* new Variant({dataType: DataType.Int64, value: [h, l]})
Int64Value(h, l) == [dataType |-> "Int64", high |-> h, value |-> l]

\* new Variant({dataType: DataType.UInt64, value: [h, l]})
UInt64Value(h, l) == [dataType |-> "UInt64", high |-> h, value |-> l]

\* a scalar Double variant
DoubleValue(v) == [dataType |-> "Double", high |-> 0, value |-> v]

\* new DataValue({value: ..., statusCode: ..., sourceTimestamp: ...})
DataValue(variant, status, ts) ==
    [value |-> variant, statusCode |-> status, sourceTimestamp |-> ts]

\* new DataValue({statusCode: StatusCodes.BadDataUnavailable})
UnsetDataValue == DataValue(NullValue, BadDataUnavailable, 0)

\* a queued object: the DataValue, whether self.oldDataValue refers to this very
\* object, and its rank of arrival among the queued objects (history)
QueueEntry(dv, old, rank) == [dv |-> dv, isOld |-> old, arr |-> rank]

MonitoringModes == {"Invalid", "Disabled", "Sampling", "Reporting"}

NoFilter == [kind |-> "none", trigger |-> "-", deadbandType |-> "-", deadbandValue |-> 0]

DataChangeFilter(trigger, deadbandType, deadbandValue) ==
    [kind |-> "DataChangeFilter", trigger |-> trigger,
     deadbandType |-> deadbandType, deadbandValue |-> deadbandValue]

\* new MonitoringParameters({...}), without filter
MonitoringParameters(ch, si, d, qs) ==
    [clientHandle |-> ch, samplingInterval |-> si, discardOldest |-> d,
     queueSize |-> qs, filter |-> NoFilter]

NoParameters == MonitoringParameters(0, 0, FALSE, 0)

NoResult == [statusCode |-> "-", revisedSamplingInterval |-> 0, revisedQueueSize |-> 0]

Max(a, b) == IF a >= b THEN a ELSE b
Min(a, b) == IF a <= b THEN a ELSE b
Abs(a) == IF a >= 0 THEN a ELSE -a

----------------------------------------------------------------------------
(* Parameter normalisation *)

\* a negative interval fails the assertion of _adjust_sampling_interval
_adjust_sampling_interval_asserts(si) == si >= 0

_adjust_sampling_interval(si) ==
    IF si = 0 THEN 0
    ELSE Min(Max(si, minimumSamplingInterval), maximumSamplingInterval)

\* the queue size capped at the maximum and not raised to 1
_adjust_queue_size_NoFloor(qs) == Min(qs, maxQueueSize)

_adjust_queue_size(qs) == Max(1, Min(qs, maxQueueSize))

_validate_parameters(options) == options.queueSize >= 0

----------------------------------------------------------------------------
(* The item and its environment as one record, so that a handler's          *)
(* statements can be applied one after the other.  The field threw is set   *)
(* when an assertion fails or an exception is raised: the statements that   *)
(* follow it in the handler are not executed.                                *)

World ==
    [attributeId |-> attributeId, indexRange |-> indexRange, filter |-> filter,
     monitoringMode |-> monitoringMode, clientHandle |-> clientHandle,
     samplingInterval |-> samplingInterval, discardOldest |-> discardOldest,
     queueSize |-> queueSize, timestampsToReturn |-> timestampsToReturn,
     queue |-> queue, overflow |-> overflow, oldDataValue |-> oldDataValue,
     samplingId |-> samplingId, value_changed_callback |-> value_changed_callback,
     attribute_changed_callback |-> attribute_changed_callback,
     is_sampling |-> is_sampling, timers |-> timers,
     valueListeners |-> valueListeners, attrListeners |-> attrListeners,
     registryCount |-> registryCount, pendingReads |-> pendingReads,
     sampleInFlight |-> sampleInFlight, nodeValue |-> nodeValue, threw |-> FALSE]

Throw(w) == [w EXCEPT !.threw = TRUE]

\* self.oldDataValue = dv, dv being an object that is not in the queue (yet)
SetOld(w, dv) ==
    [w EXCEPT !.oldDataValue = dv,
              !.queue = [i \in DOMAIN w.queue |-> [w.queue[i] EXCEPT !.isOld = FALSE]]]

\* self.queue[i].statusCode = status: the object may be self.oldDataValue too
SetQueuedStatus(w, i, status) ==
    [w EXCEPT !.queue[i].dv.statusCode = status,
              !.oldDataValue = IF w.queue[i].isOld
                               THEN [w.oldDataValue EXCEPT !.statusCode = status]
                               ELSE w.oldDataValue]

\* ranks of arrival of the queued objects, renumbered 1..n in the same order
CompressRanks(q) ==
    [i \in DOMAIN q |->
        [q[i] EXCEPT !.arr = Cardinality({j \in DOMAIN q : q[j].arr <= q[i].arr})]]

NextRank(q) == 1 + Cardinality(DOMAIN q)

----------------------------------------------------------------------------
(* Registry of running monitored items *)

register(count) == count + 1

unregister(count) == count - 1

----------------------------------------------------------------------------
(* Sampler *)

\* clearInterval left out: the old timer keeps running
clearInterval_Leaks(ts, id) == ts

\* clearInterval(id)
clearInterval(ts, id) == {t \in ts : t.h # id}

\* handle returned by setInterval
NewHandle(ts) == CHOOSE h \in 1..(Cardinality(ts) + 1) : \A t \in ts : t.h # h

\* setInterval(fn, period)
setInterval(ts, period) == ts \cup {[h |-> NewHandle(ts), period |-> period]}

\* removeListener that leaves the listener installed
removeListener_Keeps(n) == n

\* node.removeListener(event, callback)
removeListener(n) == IF n > 0 THEN n - 1 ELSE 0

\* the three assertions that end _stop_sampling
StopSamplingAsserts(w) ==
    IF w.samplingId # 0 \/ w.value_changed_callback \/ w.attribute_changed_callback
    THEN Throw(w) ELSE w

\* _stop_sampling that releases the sampler and leaves the item registered
_stop_sampling_KeepsRegistered(w) ==
    IF w.attribute_changed_callback THEN
        StopSamplingAsserts(
            [w EXCEPT !.attrListeners = removeListener(@),
                      !.attribute_changed_callback = FALSE])
    ELSE IF w.value_changed_callback THEN
        IF w.samplingId # 0
        THEN Throw(w)
        ELSE StopSamplingAsserts(
                [w EXCEPT !.valueListeners = removeListener(@),
                          !.value_changed_callback = FALSE])
    ELSE IF w.samplingId # 0 THEN
        StopSamplingAsserts(
            [w EXCEPT !.timers = clearInterval(@, w.samplingId),
                      !.samplingId = 0])
    ELSE StopSamplingAsserts(w)

_stop_sampling(w) ==
    IF w.attribute_changed_callback THEN
        StopSamplingAsserts(
            [w EXCEPT !.registryCount = unregister(@),
                      !.attrListeners = removeListener(@),
                      !.attribute_changed_callback = FALSE])
    ELSE IF w.value_changed_callback THEN
        IF w.samplingId # 0
        THEN Throw([w EXCEPT !.registryCount = unregister(@)])
        ELSE StopSamplingAsserts(
                [w EXCEPT !.registryCount = unregister(@),
                          !.valueListeners = removeListener(@),
                          !.value_changed_callback = FALSE])
    ELSE IF w.samplingId # 0 THEN
        StopSamplingAsserts(
            [w EXCEPT !.registryCount = unregister(@),
                      !.timers = clearInterval(@, w.samplingId),
                      !.samplingId = 0])
    ELSE StopSamplingAsserts(w)

----------------------------------------------------------------------------
(* Filter evaluator *)

statusCodeHasChanged(newDataValue, old) == newDataValue.statusCode # old.statusCode

Is64(v) == v.dataType \in {"Int64", "UInt64"}

\* difference(v1, v2): [threw, nan, d].  A null variant has no dataType (TypeError);
\* the 64 bit branch asserts equal high words; arrays subtracted as numbers are NaN.
difference(v1, v2) ==
    IF v1.dataType = "Null" \/ v2.dataType = "Null"
    THEN [threw |-> TRUE, nan |-> FALSE, d |-> 0]
    ELSE IF v1.dataType = "UInt64" \/ v2.dataType = "Int64" THEN
        IF Is64(v1) /\ Is64(v2) /\ v1.high = v2.high
        THEN [threw |-> FALSE, nan |-> FALSE, d |-> v1.value - v2.value]
        ELSE [threw |-> TRUE, nan |-> FALSE, d |-> 0]
    ELSE IF Is64(v1) \/ Is64(v2)
        THEN [threw |-> FALSE, nan |-> TRUE, d |-> 0]
        ELSE [threw |-> FALSE, nan |-> FALSE, d |-> v2.value - v1.value]

\* the absolute deadband compared with >= where the code compares with >
valueHasChanged_AtDeadband(newDataValue, old, deadbandType, deadbandValue) ==
    LET diff == difference(old.value, newDataValue.value) IN
    CASE deadbandType = "None" ->
            IF diff.threw THEN "throw"
            ELSE IF diff.nan \/ diff.d # 0 THEN "true" ELSE "false"
      [] deadbandType = "Absolute" ->
            IF diff.threw THEN "throw"
            ELSE IF ~diff.nan /\ Abs(diff.d) >= deadbandValue THEN "true" ELSE "false"
      [] OTHER ->
            IF deadbandType = "Percent" /\ deadbandValue >= 0 /\ deadbandValue <= 100
            THEN "true" ELSE "throw"

\* valueHasChanged: "true", "false" or "throw"
valueHasChanged(newDataValue, old, deadbandType, deadbandValue) ==
    LET diff == difference(old.value, newDataValue.value) IN
    CASE deadbandType = "None" ->
            IF diff.threw THEN "throw"
            ELSE IF diff.nan \/ diff.d # 0 THEN "true" ELSE "false"
      [] deadbandType = "Absolute" ->
            IF diff.threw THEN "throw"
            ELSE IF ~diff.nan /\ Abs(diff.d) > deadbandValue THEN "true" ELSE "false"
      [] OTHER ->
            IF deadbandType = "Percent" /\ deadbandValue >= 0 /\ deadbandValue <= 100
            THEN "true" ELSE "throw"

apply_datachange_filter(f, newDataValue, old) ==
    CASE f.trigger = "Status" ->
            IF statusCodeHasChanged(newDataValue, old) THEN "true" ELSE "false"
      [] f.trigger = "StatusValue" ->
            IF statusCodeHasChanged(newDataValue, old) THEN "true"
            ELSE valueHasChanged(newDataValue, old, f.deadbandType, f.deadbandValue)
      [] OTHER ->
            IF f.trigger = "StatusValueTimestamp" THEN "false" ELSE "throw"

\* the branch for a missing filter passes DeadbandType.None where valueHasChanged
\* asserts a DataValue
apply_filter(f, newDataValue, old) ==
    IF f.kind = "none" THEN
        IF statusCodeHasChanged(newDataValue, old) THEN "true" ELSE "throw"
    ELSE IF f.kind = "DataChangeFilter" THEN apply_datachange_filter(f, newDataValue, old)
    ELSE "true"

----------------------------------------------------------------------------
(* Helpers of lib/datamodel *)

\* sameDataValue(v1, v2)
sameDataValue(v1, v2) ==
    /\ v1.statusCode = v2.statusCode
    /\ v1.sourceTimestamp = v2.sourceTimestamp
    /\ v1.value = v2.value

\* NumericRange.overlap(eventRange, itemRange): a missing range overlaps everything;
\* the event ranges are "none", "in" (meets the range "r") and "out" (does not)
overlap(eventRange, itemRange) ==
    eventRange = "none" \/ itemRange = "none" \/ eventRange = "in"

\* extractRange(dataValue, indexRange) of a scalar: a new DataValue with the same fields
extractRange(dataValue, itemRange) ==
    DataValue(dataValue.value, dataValue.statusCode, dataValue.sourceTimestamp)

\* apply_timestamps(dataValue, timestampsToReturn, attributeId): a new DataValue
\* that keeps the source timestamp only when it is asked for
apply_timestamps(dataValue, ttr, attr) ==
    DataValue(dataValue.value, dataValue.statusCode,
              IF ttr \in {"Source", "Both"} THEN dataValue.sourceTimestamp ELSE 0)

----------------------------------------------------------------------------
(* Notification queue *)

\* self.queue.push(dataValue), dataValue being self.oldDataValue
Push(w, dv) ==
    [w EXCEPT !.queue = Append(@, QueueEntry(dv, TRUE, NextRank(w.queue)))]

\* the front dropped without marking the new front
EnqueueDiscardOldest_NoMark(w, dv) ==
    LET w1 == Push(w, dv) IN
    IF Len(w1.queue) > w1.queueSize
    THEN [w1 EXCEPT !.overflow = TRUE, !.queue = CompressRanks(Tail(@))]
    ELSE w1

\* discardOldest: push, and past queueSize drop the front and mark the new front
EnqueueDiscardOldest(w, dv) ==
    LET w1 == Push(w, dv) IN
    IF Len(w1.queue) > w1.queueSize THEN
        LET w2 == [w1 EXCEPT !.overflow = TRUE, !.queue = CompressRanks(Tail(@))] IN
        IF w2.queue[1].dv.statusCode # Good THEN Throw(w2)
        ELSE SetQueuedStatus(w2, 1, GoodWithOverflowBit)
    ELSE w1

\* a full queue keeps its back and the new value is dropped
EnqueueDiscardNewest_KeepsBack(w, dv) ==
    IF Len(w.queue) < w.queueSize THEN Push(w, dv)
    ELSE [w EXCEPT !.overflow = TRUE]

\* not discardOldest: push while there is room, else replace the back by the marked value
EnqueueDiscardNewest(w, dv) ==
    IF Len(w.queue) < w.queueSize THEN Push(w, dv)
    ELSE LET marked == [dv EXCEPT !.statusCode = GoodWithOverflowBit]
             n == Len(w.queue) IN
         [w EXCEPT !.overflow = TRUE,
                   !.oldDataValue = marked,
                   !.queue = CompressRanks(
                       [@ EXCEPT ![n] = QueueEntry(marked, TRUE, NextRank(w.queue))])]

_enqueue_value(w, dv) ==
    LET w1 == SetOld(w, dv) IN
    IF w1.queueSize = 1 THEN [w1 EXCEPT !.queue = <<QueueEntry(dv, TRUE, 1)>>]
    ELSE IF w1.discardOldest THEN EnqueueDiscardOldest(w1, dv)
    ELSE EnqueueDiscardNewest(w1, dv)

_empty_queue(w) == [w EXCEPT !.queue = <<>>, !.overflow = FALSE]

\* recordValue taking every reading it sees as the new oldDataValue
recordValue_TracksObserved(w, dataValue, eventRange, isDataValue) ==
    IF ~isDataValue THEN Throw(w)
    ELSE LET dv == extractRange(dataValue, w.indexRange)
             w1 == SetOld(w, dv)
             keep == IF w.filter.kind # "none"
                     THEN apply_filter(w.filter, dv, w.oldDataValue) ELSE "true" IN
         IF ~overlap(eventRange, w.indexRange) THEN w1
         ELSE IF keep = "throw" THEN Throw(w)
         ELSE IF keep = "false" THEN w1
         ELSE _enqueue_value(w, dv)

\* recordValue(dataValue, indexRange); isDataValue is FALSE for an undefined argument
recordValue(w, dataValue, eventRange, isDataValue) ==
    IF ~isDataValue THEN Throw(w)
    ELSE IF ~overlap(eventRange, w.indexRange) THEN w
    ELSE LET dv == extractRange(dataValue, w.indexRange)
             keep == IF w.filter.kind # "none"
                     THEN apply_filter(w.filter, dv, w.oldDataValue) ELSE "true" IN
         IF keep = "throw" THEN Throw(w)
         ELSE IF keep = "false" THEN w
         ELSE _enqueue_value(w, dv)

_on_value_changed(w, dataValue, eventRange) ==
    IF ~sameDataValue(dataValue, w.oldDataValue)
    THEN recordValue(w, dataValue, eventRange, TRUE)
    ELSE w

----------------------------------------------------------------------------
(* Sampler: timer, listeners, initial value *)

_on_sampling_timer(w) ==
    IF w.monitoringMode \notin {"Sampling", "Reporting"} THEN Throw(w)
    ELSE IF w.samplingId # 0 THEN
        IF w.is_sampling THEN Throw(w)
        ELSE [w EXCEPT !.is_sampling = TRUE, !.sampleInFlight = TRUE]
    ELSE w

\* the callback _on_sampling_timer hands to samplingFunc
SamplingDone(w, err, newDataValue) ==
    LET w1 == IF err THEN w ELSE _on_value_changed(w, newDataValue, "none") IN
    IF w1.threw THEN w1 ELSE [w1 EXCEPT !.is_sampling = FALSE]

\* the callback _start_sampling hands to node.readValueAsync
ReadValueDone(w, err, dataValue) == recordValue(w, dataValue, "none", ~err)

StartAttributeSampling(w, recordInitialValue) ==
    LET w1 == [w EXCEPT !.samplingInterval = 0,
                        !.attribute_changed_callback = TRUE,
                        !.attrListeners = @ + 1] IN
    IF recordInitialValue THEN recordValue(w1, w1.nodeValue, "none", TRUE) ELSE w1

StartValueSampling(w, recordInitialValue) ==
    IF w.samplingInterval = 0 THEN
        [w EXCEPT !.value_changed_callback = TRUE,
                  !.valueListeners = @ + 1,
                  !.pendingReads = IF recordInitialValue THEN @ + 1 ELSE @]
    ELSE IF ~(w.samplingInterval >= minimumSamplingInterval) THEN Throw(w)
    ELSE LET w1 == [w EXCEPT !.samplingId = NewHandle(w.timers),
                             !.timers = setInterval(@, w.samplingInterval)] IN
         IF recordInitialValue THEN _on_sampling_timer(w1) ELSE w1

_start_sampling(w, recordInitialValue) ==
    LET w1 == _stop_sampling(SetOld(w, UnsetDataValue)) IN
    IF w1.threw THEN w1
    ELSE LET w2 == [w1 EXCEPT !.registryCount = register(@)] IN
         IF w2.attributeId # "Value"
         THEN StartAttributeSampling(w2, recordInitialValue)
         ELSE StartValueSampling(w2, recordInitialValue)

\* setMonitoringMode without the return on an unchanged mode
setMonitoringMode_NoEarlyReturn(w, mode) ==
    IF mode = "Invalid" THEN Throw(w)
    ELSE LET w1 == [w EXCEPT !.monitoringMode = mode] IN
         IF mode = "Disabled" THEN
             LET w2 == _stop_sampling(w1) IN
             IF w2.threw THEN w2 ELSE [w2 EXCEPT !.queue = <<>>, !.overflow = FALSE]
         ELSE _start_sampling(w1, w.monitoringMode \in {"Invalid", "Disabled"})

setMonitoringMode(w, mode) ==
    IF mode = "Invalid" THEN Throw(w)
    ELSE IF mode = w.monitoringMode THEN w
    ELSE LET w1 == [w EXCEPT !.monitoringMode = mode] IN
         IF mode = "Disabled" THEN
             LET w2 == _stop_sampling(w1) IN
             IF w2.threw THEN w2 ELSE [w2 EXCEPT !.queue = <<>>, !.overflow = FALSE]
         ELSE _start_sampling(w1, w.monitoringMode \in {"Invalid", "Disabled"})

terminate(w) == _stop_sampling(w)

----------------------------------------------------------------------------
(* Re-parameterisation *)

_set_parameters(w, options) ==
    IF ~_validate_parameters(options) THEN Throw(w)
    ELSE LET w1 == [w EXCEPT !.clientHandle = options.clientHandle] IN
         IF ~_adjust_sampling_interval_asserts(options.samplingInterval) THEN Throw(w1)
         ELSE [w1 EXCEPT
                 !.samplingInterval = _adjust_sampling_interval(options.samplingInterval),
                 !.discardOldest = options.discardOldest,
                 !.queueSize = _adjust_queue_size(options.queueSize)]

\* the queue left as long as it was
Shrink_KeepsAll(q, size, oldest) == q

\* the back cut off without putting the last element back
Shrink_DropsLast(q, size, oldest) ==
    IF oldest THEN SubSeq(q, Len(q) - size + 1, Len(q)) ELSE SubSeq(q, 1, size)

\* the queue cut to queueSize: from the front, or from the back keeping the last element
Shrink(q, size, oldest) ==
    IF oldest THEN SubSeq(q, Len(q) - size + 1, Len(q))
    ELSE [SubSeq(q, 1, size) EXCEPT ![size] = q[Len(q)]]

_adjust_queue_to_match_new_queue_size(w) ==
    LET w1 == IF w.queueSize < Len(w.queue)
              THEN [w EXCEPT !.queue =
                        CompressRanks(Shrink(@, w.queueSize, w.discardOldest))]
              ELSE w
        w2 == IF w1.queueSize <= 1 THEN
                  LET w3 == [w1 EXCEPT !.overflow = FALSE] IN
                  IF Len(w3.queue) = 1 /\ w3.queue[1].dv.statusCode = GoodWithOverflowBit
                  THEN SetQueuedStatus(w3, 1, Good) ELSE w3
              ELSE w1
    IN IF Len(w2.queue) <= w2.queueSize THEN w2 ELSE Throw(w2)

_change_timer_timeout(w) ==
    IF w.samplingId = 0 THEN w
    ELSE LET ts == clearInterval(w.timers, w.samplingId) IN
         [w EXCEPT !.samplingId = NewHandle(ts),
                   !.timers = setInterval(ts, w.samplingInterval)]

_adjust_sampling(w, old_samplingInterval) ==
    IF old_samplingInterval # w.samplingInterval THEN _change_timer_timeout(w) ELSE w

\* modify(timestampsToReturn, options), the result aside; "null" is a missing argument
modify(w, ttr, options) ==
    LET w1 == [w EXCEPT !.timestampsToReturn = IF ttr = "null" THEN @ ELSE ttr]
        w2 == _set_parameters(w1, options)
        w3 == IF w2.threw THEN w2 ELSE _adjust_queue_to_match_new_queue_size(w2)
    IN IF w3.threw THEN w3 ELSE _adjust_sampling(w3, w.samplingInterval)

\* the result built from the queue size found on entry instead of the revised one
MonitoredItemModifyResult_OldSize(before, w) ==
    [statusCode |-> Good, revisedSamplingInterval |-> w.samplingInterval,
     revisedQueueSize |-> before.queueSize]

\* new MonitoredItemModifyResult({...}) returned by modify: before is the item
\* when modify was called, w the item when it returns
MonitoredItemModifyResult(before, w) ==
    [statusCode |-> Good, revisedSamplingInterval |-> w.samplingInterval,
     revisedQueueSize |-> w.queueSize]

----------------------------------------------------------------------------
(* Extraction *)

\* the notifications extractMonitoredItemNotifications returns
Notifications(w) ==
    IF w.monitoringMode # "Reporting" THEN <<>>
    ELSE [i \in DOMAIN w.queue |->
            [clientHandle |-> w.clientHandle,
             value |-> apply_timestamps(w.queue[i].dv, w.timestampsToReturn,
                                        w.attributeId)]]

\* extraction that empties the queue in every monitoring mode
extractMonitoredItemNotifications_AlwaysDrains(w) == _empty_queue(w)

extractMonitoredItemNotifications(w) ==
    IF w.monitoringMode # "Reporting" THEN w ELSE _empty_queue(w)

----------------------------------------------------------------------------
(* Inputs *)

\* readings of the node: Double values with status Good, and one reading with a
\* bad status
GoodReadings(values) == {DataValue(DoubleValue(v), Good, 1) : v \in values}

BadReading == DataValue(DoubleValue(1), BadOutOfRange, 1)

\* what a client sends with CreateMonitoredItems / ModifyMonitoredItems:
\* timestampsToReturn ("null" when missing) and the MonitoringParameters
Requests(ttrs, handles, intervals, discards, sizes) ==
    {[timestampsToReturn |-> t, options |-> MonitoringParameters(ch, si, d, qs)] :
        t \in ttrs, ch \in handles, si \in intervals, d \in discards, qs \in sizes}

\* the requests with the filter f in their MonitoringParameters
WithFilter(requests, f) == {[q EXCEPT !.options.filter = f] : q \in requests}

\* a scenario: the readings the node takes, the requests clients send, and the
\* filters, attributes and index ranges items are created with
Scenario(readings, requests, filters, attrs, ranges) ==
    [readings |-> readings, requests |-> requests, filters |-> filters,
     attrs |-> attrs, ranges |-> ranges]

\* exception based items with queues of every size and both discard policies
QueueScenario ==
    Scenario(GoodReadings({1, 2}),
             Requests({"null"}, {1}, {0}, BOOLEAN, 1..MaxQueueLen),
             {NoFilter}, {"Value"}, {"none"})

\* readings with a bad status in queues that overflow
BadStatusScenario ==
    Scenario({DataValue(DoubleValue(1), Good, 1), BadReading},
             Requests({"null"}, {1}, {0}, BOOLEAN, {2}),
             {NoFilter, DataChangeFilter("StatusValue", "None", 0)},
             {"Value"}, {"none"})

\* sampled items whose interval is modified
TimerScenario ==
    Scenario(GoodReadings({1, 2}),
             Requests({"null"}, {1}, {0, 10, 100}, {TRUE}, {0, 2}),
             {DataChangeFilter("Status", "None", 0)},
             {"Value"}, {"none"})

\* items whose client handle and timestamps are modified
HandleScenario ==
    Scenario(GoodReadings({1, 2}),
             Requests({"null", "Both"}, {1, 2}, {100}, {TRUE}, {2}),
             {NoFilter}, {"Value"}, {"none"})

\* items on another attribute than Value, with and without an index range
AttributeScenario ==
    Scenario(GoodReadings({1, 2}),
             Requests({"null"}, {1}, {0, 100}, {TRUE}, {2}),
             {NoFilter, DataChangeFilter("StatusValueTimestamp", "None", 0)},
             {"DisplayName"}, {"none", "r"})

\* requests at and beyond the limits of sampling interval and queue size
LimitScenario ==
    Scenario(GoodReadings({1}),
             Requests({"null"}, {1},
                      {0, 10, minimumSamplingInterval, maximumSamplingInterval + 1},
                      {TRUE}, {0, 1, maxQueueSize, maxQueueSize + 1}),
             {NoFilter}, {"Value"}, {"none"})

\* items that report a change of status or value, modified with parameters that
\* carry a filter reporting a change of status only
FilterScenario ==
    Scenario(GoodReadings({1, 2}),
             Requests({"null"}, {1}, {0}, {TRUE}, {2})
                \cup WithFilter(Requests({"null"}, {1}, {0}, {TRUE}, {2}),
                                DataChangeFilter("Status", "None", 0)),
             {DataChangeFilter("StatusValue", "None", 0)},
             {"Value"}, {"none"})

\* 64 bit readings, signed and unsigned, with equal and with different high words
Int64Scenario ==
    Scenario({DataValue(v, Good, 1) :
                v \in {Int64Value(0, 1), Int64Value(0, 2), Int64Value(1, 1),
                       UInt64Value(0, 1), UInt64Value(0, 2), UInt64Value(1, 1)}},
             Requests({"null"}, {1}, {0}, {TRUE}, {2}),
             {DataChangeFilter("StatusValue", "None", 0)},
             {"Value"}, {"none"})

\* sampled and exception based items on a node whose readings are good or bad
SampledScenario ==
    Scenario({DataValue(DoubleValue(1), Good, 1), BadReading},
             Requests({"null"}, {1}, {0, 100}, {TRUE}, {2}),
             {DataChangeFilter("StatusValue", "None", 0)},
             {"Value"}, {"none"})

\* good readings in queues of two and three readings that drop the oldest
ShrinkScenario ==
    Scenario(GoodReadings({1}),
             Requests({"null"}, {1}, {0, 100}, {TRUE}, {2, 3}),
             {NoFilter}, {"Value"}, {"none"})

\* readings 10, 12 and 13 and a reading with a bad status, on items whose filter
\* reports a change of status, of value, or of value beyond a deadband of 2
DeadbandScenario ==
    Scenario(GoodReadings({10, 12, 13})
                \cup {DataValue(DoubleValue(10), BadOutOfRange, 1)},
             Requests({"null"}, {1}, {0}, {FALSE}, {1, 2}),
             {DataChangeFilter("Status", "None", 0),
              DataChangeFilter("StatusValue", "None", 0),
              DataChangeFilter("StatusValue", "Absolute", 2)},
             {"Value"}, {"none"})

\* the EURange property of the analog node that PercentScenario monitors
EURange == [low |-> 0, high |-> 200]

\* readings 100, 115 and 125 of an analog node, on items whose filter has a
\* percent deadband of 10 or of 150, modified with and without such a filter
PercentScenario ==
    Scenario(GoodReadings({100, 115, 125}),
             Requests({"null"}, {1}, {0}, {TRUE}, {2})
                \cup WithFilter(Requests({"null"}, {1}, {0}, {TRUE}, {2}),
                                DataChangeFilter("StatusValue", "Percent", 150)),
             {DataChangeFilter("StatusValue", "Percent", 10),
              DataChangeFilter("StatusValue", "Percent", 150)},
             {"Value"}, {"none"})

Scenarios ==
    {QueueScenario, BadStatusScenario, TimerScenario, HandleScenario,
     AttributeScenario}

\* the ranges a change event carries; without an index range on the item every
\* range overlaps, and one stands for all
EventRanges == IF indexRange = "none" THEN {"none"} ELSE {"none", "in", "out"}

\* a call on the item: its name and arguments, what it returned, whether it
\* raised, and for setMonitoringMode and modify whether it repeats the call before it
Call(op, mode, request, notifications, result) ==
    [op |-> op, mode |-> mode, request |-> request,
     notifications |-> notifications, result |-> result, threw |-> FALSE,
     again |-> /\ op \in {"setMonitoringMode", "modify"}
               /\ last.op = op /\ last.mode = mode /\ last.request = request]

NoRequest == [timestampsToReturn |-> "null", options |-> NoParameters]

----------------------------------------------------------------------------
(* State machine *)

\* new MonitoredItem(options): the item right after construction
Created(request, attr, range, f) ==
    LET options == request.options IN
    /\ attributeId = attr
    /\ indexRange = range
    /\ filter = f
    /\ monitoringMode = "Invalid"
    /\ clientHandle = options.clientHandle
    /\ samplingInterval = _adjust_sampling_interval(options.samplingInterval)
    /\ discardOldest = options.discardOldest
    /\ queueSize = _adjust_queue_size(options.queueSize)
    /\ timestampsToReturn = IF request.timestampsToReturn = "null"
                            THEN "Neither" ELSE request.timestampsToReturn
    /\ queue = <<>>
    /\ overflow = FALSE
    /\ oldDataValue = UnsetDataValue
    /\ samplingId = 0
    /\ value_changed_callback = FALSE
    /\ attribute_changed_callback = FALSE
    /\ is_sampling = FALSE

Idle ==
    /\ timers = {}
    /\ valueListeners = 0
    /\ attrListeners = 0
    /\ registryCount = 0
    /\ pendingReads = 0
    /\ sampleInFlight = FALSE
    /\ nodeValue = DataValue(DoubleValue(1), Good, 1)
    /\ last = [op |-> "create", mode |-> "-", request |-> NoRequest,
               notifications |-> <<>>, result |-> NoResult, threw |-> FALSE,
               again |-> FALSE]

InitFrom(scenarios) ==
    \E sc \in scenarios :
        /\ sourceReadings = sc.readings
        /\ paramRequests = sc.requests
        /\ \E request \in sc.requests, attr \in sc.attrs,
              range \in sc.ranges, f \in sc.filters :
                /\ _validate_parameters(request.options)
                /\ Created(request, attr, range, f)
        /\ Idle
        /\ nodes = <<>>

Init == InitFrom(Scenarios)

\* options.monitoringMode is set: a MonitoringMode is an enumeration item, an
\* object, whatever the mode; "-" stands for options without monitoringMode
ModeGiven(mode) == mode # "-"

\* the constructor's assertions without the one on options.monitoringMode
MonitoredItem_asserts_AnyMode(options, mode) == _validate_parameters(options)

\* the assertions new MonitoredItem(options) goes through, options.monitoringMode
\* being mode: a constructor that fails an assertion returns no item
MonitoredItem_asserts(options, mode) ==
    ~ModeGiven(mode) /\ _validate_parameters(options)

\* the items left by new MonitoredItem(options) for options with and without a
\* monitoringMode; last.mode records the mode the options carried
InitCreate ==
    \E sc \in {AttributeScenario, TimerScenario} :
        /\ sourceReadings = sc.readings
        /\ paramRequests = sc.requests
        /\ \E request \in sc.requests, attr \in sc.attrs, range \in sc.ranges,
              f \in sc.filters, mode \in MonitoringModes \cup {"-"} :
                /\ MonitoredItem_asserts(request.options, mode)
                /\ Created(request, attr, range, f)
                /\ last = [op |-> "create", mode |-> mode, request |-> NoRequest,
                           notifications |-> <<>>, result |-> NoResult,
                           threw |-> FALSE, again |-> FALSE]
        /\ timers = {}
        /\ valueListeners = 0
        /\ attrListeners = 0
        /\ registryCount = 0
        /\ pendingReads = 0
        /\ sampleInFlight = FALSE
        /\ nodeValue = DataValue(DoubleValue(1), Good, 1)
        /\ nodes = <<>>

\* the state a handler leaves behind
Commit(w, call) ==
    /\ Len(w.queue) <= MaxQueueLen + 1
    /\ w.pendingReads <= MaxPendingReads
    /\ monitoringMode' = w.monitoringMode
    /\ clientHandle' = w.clientHandle
    /\ samplingInterval' = w.samplingInterval
    /\ discardOldest' = w.discardOldest
    /\ queueSize' = w.queueSize
    /\ timestampsToReturn' = w.timestampsToReturn
    /\ queue' = w.queue
    /\ overflow' = w.overflow
    /\ oldDataValue' = w.oldDataValue
    /\ samplingId' = w.samplingId
    /\ value_changed_callback' = w.value_changed_callback
    /\ attribute_changed_callback' = w.attribute_changed_callback
    /\ is_sampling' = w.is_sampling
    /\ timers' = w.timers
    /\ valueListeners' = w.valueListeners
    /\ attrListeners' = w.attrListeners
    /\ registryCount' = w.registryCount
    /\ pendingReads' = w.pendingReads
    /\ sampleInFlight' = w.sampleInFlight
    /\ nodeValue' = w.nodeValue
    /\ last' = [call EXCEPT !.threw = w.threw]
    /\ UNCHANGED <<attributeId, indexRange, filter, sourceReadings, paramRequests,
                   nodes>>

SetMonitoringMode(mode) ==
    Commit(setMonitoringMode(World, mode),
           Call("setMonitoringMode", mode, NoRequest, <<>>, NoResult))

RecordValue(dataValue, eventRange) ==
    Commit(recordValue(World, dataValue, eventRange, TRUE),
           Call("recordValue", "-", NoRequest, <<>>, NoResult))

Modify(request) ==
    LET w == modify(World, request.timestampsToReturn, request.options) IN
    Commit(w, Call("modify", "-", request, <<>>,
                   IF w.threw THEN NoResult ELSE MonitoredItemModifyResult(World, w)))

ExtractNotifications ==
    Commit(extractMonitoredItemNotifications(World),
           Call("extract", "-", NoRequest, Notifications(World), NoResult))

Terminate ==
    Commit(terminate(World),
           Call("terminate", "-", NoRequest, <<>>, NoResult))

\* the node takes a new reading and emits the event the item listens to
NodeChange(dataValue, eventRange) ==
    LET w == [World EXCEPT !.nodeValue = dataValue] IN
    Commit(IF w.valueListeners > 0 \/ w.attrListeners > 0
           THEN _on_value_changed(w, dataValue, eventRange) ELSE w,
           Call("event", "-", NoRequest, <<>>, NoResult))

\* an interval timer of the item fires
TimerTick ==
    /\ timers # {}
    /\ Commit(_on_sampling_timer(World),
              Call("tick", "-", NoRequest, <<>>, NoResult))

\* the sampling function calls back, with an error or with the node's reading
SampleComplete(err) ==
    /\ sampleInFlight
    /\ Commit(SamplingDone([World EXCEPT !.sampleInFlight = FALSE], err, nodeValue),
              Call(IF err THEN "sampleFailed" ELSE "sampled", "-", NoRequest, <<>>,
                   NoResult))

\* node.readValueAsync calls back, with an error or with the node's reading
ReadComplete(err) ==
    /\ pendingReads > 0
    /\ Commit(ReadValueDone([World EXCEPT !.pendingReads = @ - 1], err, nodeValue),
              Call(IF err THEN "readFailed" ELSE "read", "-", NoRequest, <<>>, NoResult))

Next ==
    \/ \E mode \in MonitoringModes : SetMonitoringMode(mode)
    \/ \E dv \in sourceReadings, r \in EventRanges : RecordValue(dv, r)
    \/ \E request \in paramRequests : Modify(request)
    \/ ExtractNotifications
    \/ Terminate
    \/ \E dv \in sourceReadings, r \in EventRanges : NodeChange(dv, r)
    \/ TimerTick
    \/ \E err \in BOOLEAN : SampleComplete(err)
    \/ \E err \in BOOLEAN : ReadComplete(err)

Spec == Init /\ [][Next]_vars

\* the items of ShrinkScenario alone
InitShrink == InitFrom({ShrinkScenario})

SpecShrink == InitShrink /\ [][Next]_vars

SpecCreate == InitCreate /\ [][Next]_vars

\* the items of FilterScenario, and the sampled items of ShrinkScenario
InitFilter == InitFrom({FilterScenario, ShrinkScenario})

SpecFilter == InitFilter /\ [][Next]_vars

\* the items of Int64Scenario, and the sampled items of ShrinkScenario
InitInt64 == InitFrom({Int64Scenario, ShrinkScenario})

SpecInt64 == InitInt64 /\ [][Next]_vars

\* the items of SampledScenario
InitSampled == InitFrom({SampledScenario})

SpecSampled == InitSampled /\ [][Next]_vars

\* the items of LimitScenario
InitLimit == InitFrom({LimitScenario})

SpecLimit == InitLimit /\ [][Next]_vars

\* the items on another attribute, with and without index range, and the
\* sampled items of TimerScenario
InitDiscard == InitFrom({AttributeScenario, TimerScenario})

SpecDiscard == InitDiscard /\ [][Next]_vars

\* the exception based items of PercentScenario, and the sampled items of
\* ShrinkScenario
InitPercent == InitFrom({PercentScenario, ShrinkScenario})

SpecPercent == InitPercent /\ [][Next]_vars

\* the exception based items of DeadbandScenario, and the sampled items of
\* ShrinkScenario
InitDeadband == InitFrom({DeadbandScenario, ShrinkScenario})

SpecDeadband == InitDeadband /\ [][Next]_vars

\* the items with queues of every size and both discard policies, and the
\* sampled items of ShrinkScenario
InitQueue == InitFrom({QueueScenario, ShrinkScenario})

SpecQueue == InitQueue /\ [][Next]_vars

----------------------------------------------------------------------------
(* Properties *)

\* the isSampling getter
isSampling == samplingId # 0 \/ value_changed_callback \/ attribute_changed_callback

\* timers and node listeners of the item that are installed
LiveBindings == Cardinality(timers) + valueListeners + attrListeners

\* sampler bindings the item holds
HeldBindings ==
    (IF samplingId # 0 THEN 1 ELSE 0) + (IF value_changed_callback THEN 1 ELSE 0)
        + (IF attribute_changed_callback THEN 1 ELSE 0)

\* the DataValues in the queue, in order
QueuedValues == [i \in DOMAIN queue |-> queue[i].dv]

Marked(q) == \E i \in DOMAIN q : q[i].dv.statusCode = GoodWithOverflowBit

\* everything but the record of the last call
ItemAndEnvironment ==
    <<attributeId, indexRange, filter, monitoringMode, clientHandle,
      samplingInterval, discardOldest, queueSize, timestampsToReturn, queue,
      overflow, oldDataValue, samplingId, value_changed_callback,
      attribute_changed_callback, is_sampling, timers, valueListeners,
      attrListeners, registryCount, pendingReads, sampleInFlight, nodeValue>>

\* C1: the queue never holds more readings than queueSize.
C1_QueueWithinSize == Len(queue) <= queueSize

\* C1 witness: a reading arrived in a full queue of three or more readings, the
\* front was dropped and the new front marked
C1_Witness ==
    /\ last.op = "recordValue" /\ ~last.threw
    /\ queueSize >= 3 /\ Len(queue) = queueSize
    /\ overflow /\ queue[1].dv.statusCode = GoodWithOverflowBit

\* C2: overflow is set exactly when a queued reading carries GoodWithOverflowBit
\* (no reading of the node carries that status, so the queue applied it).
C2_OverflowIffMarked == overflow <=> Marked(queue)

\* C3: a Disabled item has an empty queue, no overflow and no sampler.
C3_DisabledIsQuiet ==
    monitoringMode = "Disabled" =>
        queue = <<>> /\ ~overflow /\ ~isSampling /\ LiveBindings = 0

\* C4: at most one sampler binding is live, and a released sampler leaves no
\* timer and no node listener behind.
C4_AtMostOneSampler ==
    /\ HeldBindings <= 1
    /\ LiveBindings <= 1
    /\ ~isSampling => LiveBindings = 0

\* C4 witness: terminate released the timer of a Reporting item while a sample
\* started by that timer was still in flight
C4_Witness ==
    /\ last.op = "terminate" /\ ~last.threw
    /\ monitoringMode = "Reporting" /\ sampleInFlight
    /\ ~isSampling /\ LiveBindings = 0

\* C5: an item on another attribute than Value has samplingInterval 0.
C5_NonValueIsExceptionBased == attributeId # "Value" => samplingInterval = 0

\* C6: a transition between Sampling and Reporting changes the monitoring mode
\* only: sampler, queue, overflow and filter baseline stay as they are.
C6_SamplingReportingKeepsAll ==
    [][(/\ last'.op = "setMonitoringMode"
        /\ {monitoringMode, monitoringMode'} = {"Sampling", "Reporting"})
       => /\ UNCHANGED <<samplingId, value_changed_callback,
                         attribute_changed_callback, timers, valueListeners,
                         attrListeners, overflow, oldDataValue, pendingReads,
                         sampleInFlight, is_sampling>>
          /\ QueuedValues' = QueuedValues]_vars

\* C7: enabling an item enqueues the initial sample whatever the filter: at once
\* for an attribute item (the one queued reading is then the node's reading),
\* and when the first read or sample completes for a Value item.
C7_InitialSampleEnqueued ==
    [][/\ (/\ last'.op = "setMonitoringMode" /\ ~last'.threw
           /\ monitoringMode \in {"Invalid", "Disabled"}
           /\ monitoringMode' \in {"Sampling", "Reporting"}
           /\ attributeId # "Value")
          => /\ queue' # <<>>
             /\ queue = <<>> => /\ Len(queue') = 1
                                /\ queue'[1].dv.value = nodeValue.value
       /\ (/\ last'.op \in {"read", "sampled"} /\ ~last'.threw
           /\ monitoringMode \in {"Sampling", "Reporting"}
           /\ oldDataValue = UnsetDataValue)
          => queue' # <<>>]_vars

\* C8: setMonitoringMode(M) leaves the item in mode M, and on an item that is
\* already in mode M it changes nothing.
C8_SameModeIsNoOp ==
    [][(last'.op = "setMonitoringMode" /\ last'.mode # "Invalid")
       => /\ monitoringMode' = last'.mode
          /\ monitoringMode = last'.mode
                => ~last'.threw /\ UNCHANGED ItemAndEnvironment]_vars

\* C8 witness: Reporting was asked for twice in a row on a bound item with
\* queued readings
C8_Witness ==
    /\ last.op = "setMonitoringMode" /\ last.again /\ last.mode = "Reporting"
    /\ monitoringMode = "Reporting" /\ isSampling /\ queue # <<>>

\* C9: a modify that repeats the modify before it changes nothing and returns
\* the same result.
C9_ModifyIdempotent ==
    [][(last'.op = "modify" /\ last'.again)
       => /\ UNCHANGED ItemAndEnvironment
          /\ last'.result = last.result
          /\ last'.threw = last.threw]_vars

\* C9 witness: modify was repeated on a Reporting item whose queue of good
\* readings a modify has cut from the front, dropping the marked reading
C9_Witness ==
    /\ last.op = "modify" /\ last.again /\ ~last.threw
    /\ monitoringMode = "Reporting" /\ discardOldest
    /\ queueSize = 2 /\ Len(queue) = 2 /\ overflow /\ ~Marked(queue)
    /\ \A i \in DOMAIN queue : queue[i].dv.statusCode = Good

\* C10: in Reporting mode extract returns one notification per queued reading,
\* with the client handle, in queue order, which is the order of arrival, and
\* empties the queue; in another mode it returns nothing and keeps the queue,
\* and going from Sampling to Reporting keeps the queue too.
C10_ExtractDrainsInOrder ==
    [][/\ last'.op = "extract" =>
            /\ \A i, j \in DOMAIN queue : i < j => queue[i].arr < queue[j].arr
            /\ IF monitoringMode = "Reporting"
               THEN /\ Len(last'.notifications) = Len(queue)
                    /\ \A i \in DOMAIN queue :
                        /\ last'.notifications[i].clientHandle = clientHandle
                        /\ last'.notifications[i].value.value = queue[i].dv.value
                        /\ last'.notifications[i].value.statusCode
                              = queue[i].dv.statusCode
                    /\ queue' = <<>> /\ ~overflow'
               ELSE /\ last'.notifications = <<>>
                    /\ queue' = queue /\ overflow' = overflow
       /\ (/\ last'.op = "setMonitoringMode"
           /\ monitoringMode = "Sampling" /\ monitoringMode' = "Reporting")
          => QueuedValues' = QueuedValues]_vars

\* C10 witness: extract returned two notifications with different values
C10_Witness ==
    /\ last.op = "extract" /\ queue = <<>> /\ ~overflow
    /\ Len(last.notifications) >= 2
    /\ last.notifications[1].value.value # last.notifications[2].value.value

\* the values of the queued readings, in order
ValuesOf(q) == [i \in DOMAIN q |-> q[i].dv.value]

\* C11: modify keeps the most recent reading at the back of a queue that was not
\* empty (its status either kept, or brought back to Good in a queue of one);
\* a queue that must shrink keeps its newest readings in order when the oldest
\* are discarded, and else its oldest queueSize - 1 readings followed by the
\* most recent one; the extract that follows in Reporting mode returns it last.
C11_ModifyKeepsLatest ==
    [][/\ (last'.op = "modify" /\ queue # <<>>) =>
            LET n == Len(queue)
                m == queueSize'
                back == queue[n].dv
                back2 == queue'[Len(queue')].dv
            IN  /\ queue' # <<>>
                /\ back2.value = back.value
                /\ back2.sourceTimestamp = back.sourceTimestamp
                /\ \/ back2.statusCode = back.statusCode
                   \/ /\ m = 1 /\ back.statusCode = GoodWithOverflowBit
                      /\ back2.statusCode = Good
                /\ IF n <= m THEN ValuesOf(queue') = ValuesOf(queue)
                   ELSE IF discardOldest'
                   THEN ValuesOf(queue') = SubSeq(ValuesOf(queue), n - m + 1, n)
                   ELSE ValuesOf(queue')
                            = SubSeq(ValuesOf(queue), 1, m - 1) \o <<back.value>>
       /\ (/\ last.op = "modify" /\ last'.op = "extract"
           /\ monitoringMode = "Reporting" /\ queue # <<>>) =>
            LET k == Len(last'.notifications)
            IN  /\ k = Len(queue)
                /\ last'.notifications[k].value.value = queue[k].dv.value]_vars

\* C11 witness: modify has cut a queue of three readings that had overflowed
\* down to its two newest readings, which differ, on a Reporting item
C11_Witness ==
    /\ last.op = "modify" /\ ~last.again /\ ~last.threw
    /\ monitoringMode = "Reporting" /\ discardOldest /\ queueSize = 2
    /\ Len(queue) = 2 /\ overflow /\ ~Marked(queue)
    /\ queue[1].dv.value # queue[2].dv.value

\* every queued reading is Good, but for a front that may be marked
AllGoodBehindFront(q) ==
    \A i \in DOMAIN q :
        \/ q[i].dv.statusCode = Good
        \/ i = 1 /\ q[i].dv.statusCode = GoodWithOverflowBit

\* C12: with queueSize > 1 and discardOldest, a Good reading recorded on an item
\* without filter is pushed at the back; when the queue was full the front is
\* dropped, the new front is marked GoodWithOverflowBit, the readings behind it
\* stay Good in arrival order and overflow is set.  From an empty queue, more
\* than queueSize readings therefore leave the queueSize most recent ones.
C12_DiscardOldestKeepsNewest ==
    [][\A dv \in sourceReadings :
        (/\ RecordValue(dv, "none")
         /\ filter = NoFilter /\ discardOldest /\ queueSize > 1
         /\ dv.statusCode = Good /\ AllGoodBehindFront(queue))
        => /\ ~last'.threw
           /\ AllGoodBehindFront(queue')
           /\ \A i, j \in DOMAIN queue' : i < j => queue'[i].arr < queue'[j].arr
           /\ IF Len(queue) < queueSize
              THEN QueuedValues' = Append(QueuedValues, dv) /\ overflow' = overflow
              ELSE /\ overflow'
                   /\ QueuedValues' =
                        [i \in 1..queueSize |->
                            IF i = queueSize THEN dv
                            ELSE IF i = 1
                            THEN [queue[2].dv EXCEPT !.statusCode = GoodWithOverflowBit]
                            ELSE queue[i + 1].dv]]_vars

\* C12 witness: readings 1, 2, 1, 2 were recorded in an empty queue of three,
\* which holds the last three with the front marked
C12_Witness ==
    /\ last.op = "recordValue" /\ ~last.threw
    /\ filter = NoFilter /\ discardOldest /\ queueSize = 3 /\ overflow
    /\ Len(queue) = 3
    /\ ValuesOf(queue) = <<DoubleValue(2), DoubleValue(1), DoubleValue(2)>>
    /\ queue[1].dv.statusCode = GoodWithOverflowBit
    /\ queue[2].dv.statusCode = Good /\ queue[3].dv.statusCode = Good

\* every queued reading is Good, but for a back that may be marked in a full queue
AllGoodBeforeBack(q, size) ==
    \A i \in DOMAIN q :
        \/ q[i].dv.statusCode = Good
        \/ i = Len(q) /\ Len(q) = size /\ q[i].dv.statusCode = GoodWithOverflowBit

\* C13: with queueSize > 1 and discardOldest false, a Good reading recorded on an
\* item without filter is pushed at the back while there is room; on a full
\* queue it replaces the back and carries GoodWithOverflowBit, the readings
\* before it are kept as they are, Good and in arrival order, and overflow is
\* set.  From an empty queue, more than queueSize readings therefore leave the
\* first queueSize - 1 readings followed by the most recent one, marked.
C13_DiscardNewestKeepsOldest ==
    [][\A dv \in sourceReadings :
        (/\ RecordValue(dv, "none")
         /\ filter = NoFilter /\ ~discardOldest /\ queueSize > 1
         /\ dv.statusCode = Good /\ AllGoodBeforeBack(queue, queueSize))
        => /\ ~last'.threw
           /\ AllGoodBeforeBack(queue', queueSize)
           /\ \A i, j \in DOMAIN queue' : i < j => queue'[i].arr < queue'[j].arr
           /\ IF Len(queue) < queueSize
              THEN QueuedValues' = Append(QueuedValues, dv) /\ overflow' = overflow
              ELSE /\ overflow'
                   /\ QueuedValues' =
                        [QueuedValues EXCEPT ![queueSize] =
                            [dv EXCEPT !.statusCode = GoodWithOverflowBit]]]_vars

\* C13 witness: more than three readings were recorded in a queue of three,
\* which holds the first two (1, 1) and the most recent one (2), marked
C13_Witness ==
    /\ last.op = "recordValue" /\ ~last.threw
    /\ filter = NoFilter /\ ~discardOldest /\ queueSize = 3 /\ overflow
    /\ Len(queue) = 3
    /\ ValuesOf(queue) = <<DoubleValue(1), DoubleValue(1), DoubleValue(2)>>
    /\ queue[1].dv.statusCode = Good /\ queue[2].dv.statusCode = Good
    /\ queue[3].dv.statusCode = GoodWithOverflowBit

\* the step hands the reading dv to recordValue: by a direct call, by the
\* listener of a node event, or by the callback of a read or of a sample
Delivers(dv, r) ==
    \/ last'.op = "recordValue" /\ RecordValue(dv, r)
    \/ /\ last'.op = "event" /\ NodeChange(dv, r)
       /\ valueListeners > 0 \/ attrListeners > 0
       /\ ~sameDataValue(dv, oldDataValue)
    \/ /\ last'.op = "read" /\ ReadComplete(FALSE)
       /\ dv = nodeValue /\ r = "none"
    \/ /\ last'.op = "sampled" /\ SampleComplete(FALSE)
       /\ dv = nodeValue /\ r = "none"
       /\ ~sameDataValue(dv, oldDataValue)

\* the item after the step is the item after _enqueue_value of dv
Enqueued(dv) ==
    LET w == _enqueue_value(World, extractRange(dv, indexRange))
    IN  queue' = w.queue /\ overflow' = w.overflow /\ oldDataValue' = w.oldDataValue

\* the numbers held by two scalar variants are further apart than d
FurtherApart(v1, v2, d) == Abs(v1.value - v2.value) > d

C15_StatusValueTimestampDecides ==
    [][\A dv \in sourceReadings, r \in EventRanges :
        (/\ Delivers(dv, r)
         /\ overlap(r, indexRange)
         /\ filter.kind = "DataChangeFilter"
         /\ filter.trigger = "StatusValueTimestamp"
         /\ filter.deadbandType \in {"None", "Absolute"})
        => LET accepted ==
                   \/ dv.statusCode # oldDataValue.statusCode
                   \/ IF filter.deadbandType = "None"
                      THEN dv.value # oldDataValue.value
                      ELSE FurtherApart(dv.value, oldDataValue.value,
                                        filter.deadbandValue)
                   \/ dv.sourceTimestamp # oldDataValue.sourceTimestamp
           IN  IF accepted THEN Enqueued(dv)
               ELSE ~last'.threw /\ UNCHANGED <<queue, overflow, oldDataValue>>]_vars

\* C16: with trigger StatusValue and a percent deadband p in 0..100, a reading whose
\* status is oldDataValue's is let through exactly when its value is further
\* from the old value than p percent of the width of the node's EURange.
C16_PercentDeadbandDecides ==
    [][\A dv \in sourceReadings, r \in EventRanges :
        (/\ Delivers(dv, r)
         /\ overlap(r, indexRange)
         /\ filter.kind = "DataChangeFilter"
         /\ filter.trigger = "StatusValue"
         /\ filter.deadbandType = "Percent"
         /\ filter.deadbandValue >= 0 /\ filter.deadbandValue <= 100
         /\ dv.statusCode = oldDataValue.statusCode)
        => IF Abs(dv.value.value - oldDataValue.value.value) * 100
                > filter.deadbandValue * (EURange.high - EURange.low)
           THEN Enqueued(dv)
           ELSE ~last'.threw /\ UNCHANGED <<queue, overflow, oldDataValue>>]_vars

\* C17: an item without filter enqueues a reading exactly when its status or
\* its value differs from oldDataValue's; the last accepted reading handed to
\* recordValue once more is not enqueued.
C17_NoFilterReportsChanges ==
    [][\A dv \in sourceReadings, r \in EventRanges :
        (/\ Delivers(dv, r)
         /\ overlap(r, indexRange)
         /\ filter = NoFilter)
        => IF \/ dv.statusCode # oldDataValue.statusCode
              \/ dv.value # oldDataValue.value
           THEN Enqueued(dv)
           ELSE ~last'.threw /\ UNCHANGED <<queue, overflow, oldDataValue>>]_vars

\* a percent deadband outside 0..100
InvalidPercent(f) ==
    /\ f.kind = "DataChangeFilter" /\ f.deadbandType = "Percent"
    /\ f.deadbandValue < 0 \/ f.deadbandValue > 100

\* C18: modify with a percent deadband filter whose value is outside 0..100
\* answers BadDeadbandFilterInvalid, and no reading is ever handed to an item
\* that holds such a filter.
C18_InvalidDeadbandRejected ==
    [][/\ (last'.op = "modify" /\ InvalidPercent(last'.request.options.filter))
            => last'.result.statusCode = "BadDeadbandFilterInvalid"
       /\ \A dv \in sourceReadings, r \in EventRanges :
            (Delivers(dv, r) /\ overlap(r, indexRange)) => ~InvalidPercent(filter)]_vars

\* C19: a reading that recordValue discards, because its range does not overlap
\* the item's index range or because the filter rejects it, changes nothing:
\* the queue with its status codes, overflow and oldDataValue stay as they are.
C19_DiscardHasNoEffect ==
    [][\A dv \in sourceReadings, r \in EventRanges :
        (/\ Delivers(dv, r)
         /\ \/ ~overlap(r, indexRange)
            \/ /\ filter.kind # "none"
               /\ apply_filter(filter, extractRange(dv, indexRange), oldDataValue)
                     = "false")
        => ~last'.threw /\ UNCHANGED <<queue, overflow, oldDataValue>>]_vars

\* C19 witness: the node went from 1 to 2 outside the index range of an item
\* without filter, whose listener is bound: 2 was not recorded
C19_Witness ==
    /\ last.op = "event" /\ ~last.threw /\ attrListeners > 0
    /\ indexRange = "r" /\ filter = NoFilter
    /\ nodeValue = DataValue(DoubleValue(2), Good, 1)
    /\ oldDataValue = DataValue(DoubleValue(1), Good, 1)
    /\ ValuesOf(queue) = <<DoubleValue(1)>>

\* the item holds no sampler and nothing of it is installed on the timer or the node
Released == ~isSampling /\ LiveBindings = 0

\* C20: terminate never throws, whatever the state of the item; it leaves no
\* sampler bound and keeps queue, overflow and monitoringMode; a second
\* terminate changes nothing; and once released, no timer of the item ticks and
\* no event of the node changes the queue.
C20_TerminateReleases ==
    [][/\ last'.op = "terminate" =>
            /\ ~last'.threw
            /\ Released'
            /\ UNCHANGED <<queue, overflow, monitoringMode>>
            /\ last.op = "terminate" => UNCHANGED ItemAndEnvironment
       /\ Released =>
            /\ last'.op # "tick"
            /\ last'.op = "event" => UNCHANGED <<queue, overflow, oldDataValue>>
      ]_vars

\* C20 witness: an item on another attribute, without filter, was reporting with
\* reading 1 queued and was terminated; the node then changed to 2 and the
\* queue still holds 1 alone
C20_Witness ==
    /\ last.op = "event" /\ ~last.threw
    /\ monitoringMode = "Reporting" /\ Released
    /\ attributeId # "Value" /\ indexRange = "none" /\ filter = NoFilter
    /\ nodeValue = DataValue(DoubleValue(2), Good, 1)
    /\ oldDataValue = DataValue(DoubleValue(1), Good, 1)
    /\ ValuesOf(queue) = <<DoubleValue(1)>>

\* C21: when terminate ran while a sample or an initial read was in flight, the
\* completion that follows changes neither the queue, nor overflow, nor
\* oldDataValue.
C21_LateCompletionIsNoOp ==
    [][(/\ last.op = "terminate"
        /\ last'.op \in {"read", "readFailed", "sampled", "sampleFailed"})
       => UNCHANGED <<queue, overflow, oldDataValue>>]_vars

\* C22: a timer tick, or the first tick that setMonitoringMode fires when it binds
\* the timer again, that comes while a sample is in flight is skipped: it starts
\* nothing, enqueues nothing and throws nothing; the one sample stays in flight.
C22_TickInFlightIsSkipped ==
    [][/\ (sampleInFlight /\ last'.op = "tick") =>
            /\ ~last'.threw
            /\ sampleInFlight'
            /\ UNCHANGED <<queue, overflow, oldDataValue>>
       /\ (/\ sampleInFlight
           /\ last'.op = "setMonitoringMode"
           /\ last'.mode \in {"Sampling", "Reporting"}) =>
            ~last'.threw /\ sampleInFlight'
      ]_vars

\* the interval and the queue size the parameters of a request are revised to
RevisedInterval(si) ==
    IF si = 0 THEN 0
    ELSE IF si < minimumSamplingInterval THEN minimumSamplingInterval
    ELSE IF si > maximumSamplingInterval THEN maximumSamplingInterval
    ELSE si

RevisedQueueSize(qs) ==
    IF qs < 1 THEN 1 ELSE IF qs > maxQueueSize THEN maxQueueSize ELSE qs

Revised(request) ==
    /\ samplingInterval = RevisedInterval(request.options.samplingInterval)
    /\ queueSize = RevisedQueueSize(request.options.queueSize)

C25_ModifySetsFilter ==
    [][(/\ last'.op = "modify" /\ ~last'.threw
        /\ last'.request.options.filter # NoFilter
        /\ last'.request.options.filter # filter)
       => filter' = last'.request.options.filter]_vars

\* the filter of the item lets the reading through
Accepted(dv, r) ==
    /\ overlap(r, indexRange)
    /\ \/ filter.kind = "none"
       \/ apply_filter(filter, extractRange(dv, indexRange), oldDataValue) = "true"

\* C26: a BadOutOfRange reading that recordValue accepts is enqueued as it is:
\* the call does not throw and leaves the reading at the back of the queue with
\* status BadOutOfRange, whatever the queue held and whatever the discard policy.
C26_BadOutOfRangePassesThrough ==
    [][\A dv \in sourceReadings, r \in EventRanges :
        (/\ dv.statusCode = BadOutOfRange
         /\ last'.op = "recordValue" /\ RecordValue(dv, r)
         /\ Accepted(dv, r))
        => /\ ~last'.threw
           /\ queue' # <<>>
           /\ queue'[Len(queue')].dv = extractRange(dv, indexRange)]_vars

\* C27: recordValue never throws: whatever the reading and the state of the item,
\* the call returns, the reading enqueued or dropped.
C27_RecordValueNeverThrows ==
    [][last'.op = "recordValue" => ~last'.threw]_vars

\* C28: the registry counts the item exactly while the item holds a sampler: one
\* when a sampler is bound, also after it was bound again, and none when it is
\* not, also after it was released twice.
C28_RegistryCountsBoundItems ==
    registryCount = IF isSampling THEN 1 ELSE 0

\* C28 witness: an item was bound (its first read is still pending), released by
\* Disabled and then terminated: the second release left the count at none
C28_Witness ==
    /\ last.op = "terminate" /\ ~last.threw
    /\ monitoringMode = "Disabled" /\ pendingReads = 1
    /\ ~isSampling /\ registryCount = 0

\* C29: for a 64 bit reading compared with a queued 64 bit reading of the same type
\* and status, under a filter on status and value without deadband: with equal
\* high words the reading is reported exactly when the low words differ, and with
\* different high words it is reported; no such reading makes the call throw.
C29_Int64Difference ==
    [][\A dv \in sourceReadings :
        (/\ last'.op = "recordValue" /\ RecordValue(dv, "none")
         /\ filter = DataChangeFilter("StatusValue", "None", 0)
         /\ Is64(dv.value) /\ dv.value.dataType = oldDataValue.value.dataType
         /\ dv.statusCode = oldDataValue.statusCode)
        => /\ ~last'.threw
           /\ IF dv.value.high = oldDataValue.value.high
                 /\ dv.value.value = oldDataValue.value.value
              THEN UNCHANGED <<queue, overflow, oldDataValue>>
              ELSE Enqueued(dv)]_vars

\* C30: when the sampling function calls back with an error, nothing is thrown,
\* queue, overflow and oldDataValue stay as they are and _is_sampling is cleared;
\* _is_sampling is cleared as well when it calls back with a reading.
C30_SamplingFlagCleared ==
    [][/\ last'.op = "sampleFailed" =>
            /\ ~last'.threw
            /\ UNCHANGED <<queue, overflow, oldDataValue>>
            /\ ~is_sampling'
       /\ last'.op = "sampled" => ~is_sampling'
      ]_vars

\* C32: while an item on the Value attribute holds a sampler, the sampler is the
\* one its samplingInterval calls for: a timer exactly when the interval is
\* positive, with the interval as its period, and the value_changed listener
\* exactly when the interval is 0.
C32_SamplerMatchesInterval ==
    (attributeId = "Value" /\ isSampling) =>
        /\ samplingId # 0 <=> samplingInterval > 0
        /\ value_changed_callback <=> samplingInterval = 0
        /\ \A t \in timers : t.h = samplingId => t.period = samplingInterval

\* C33: on an item with a DataChangeFilter, a reading that recordValue accepts
\* becomes oldDataValue with the status it was delivered with, also when the
\* queue marks the queued reading GoodWithOverflowBit; so the same reading
\* delivered again is rejected.
C33_MarkerLeavesBaseline ==
    [][\A dv \in sourceReadings, r \in EventRanges :
        (/\ last'.op = "recordValue" /\ RecordValue(dv, r)
         /\ filter.kind # "none" /\ filter.trigger \in {"Status", "StatusValue"}
         /\ Accepted(dv, r) /\ ~last'.threw)
        => /\ oldDataValue'.statusCode = dv.statusCode
           /\ apply_filter(filter, extractRange(dv, indexRange), oldDataValue')
                = "false"]_vars

\* C34: on an exception based item on the Value attribute, when a value_changed
\* event has just enqueued the node's reading while the initial read was pending,
\* the completion of the read with that same reading enqueues nothing, with and
\* without filter.
C34_InitialReadNotEnqueuedTwice ==
    [][(/\ last.op = "event" /\ last'.op = "read"
        /\ attributeId = "Value" /\ samplingInterval = 0 /\ value_changed_callback
        /\ queue # <<>> /\ queue[Len(queue)].dv = nodeValue
        /\ oldDataValue = nodeValue)
       => ~last'.threw /\ UNCHANGED <<queue, overflow>>]_vars

----------------------------------------------------------------------------
(* Multi-state value discrete variables (UAMultiStateValueDiscreteType.js) *)

\* most variables the address space holds at once: the variable added, its
\* clones and the clones of its clones
MaxNodes == 3
\* largest UInt32 value written to a variable
MaxNodeValue == 3

\* the values a variable is given
NodeValues == 0 .. MaxNodeValue

\* options.enumValues after coerceEnumValues: the value of an EnumValueType is an
\* Int64, <<high word, low word>>; Blue stands for the number 2^32 + 2
EnumValues ==
    << [value |-> <<0, 0>>, displayName |-> "Red"],
       [value |-> <<0, 1>>, displayName |-> "Green"],
       [value |-> <<1, 2>>, displayName |-> "Blue"] >>

\* enumValueIndex as forEach fills it: the key of an entry is e.value[1], the low
\* word of its value, and an entry replaces an earlier one under the same key
enumValueIndex ==
    [key \in {EnumValues[i].value[2] : i \in DOMAIN EnumValues} |->
        EnumValues[CHOOSE i \in DOMAIN EnumValues :
                      /\ EnumValues[i].value[2] = key
                      /\ \A j \in DOMAIN EnumValues :
                            j > i => EnumValues[j].value[2] # key]]

\* findValueAsText(value): the text of the LocalizedText variant it returns
findValueAsText(value) ==
    IF value \in DOMAIN enumValueIndex
    THEN enumValueIndex[value].displayName
    ELSE "Invalid"

\* the variable addMultiStateValueDiscreteType returns for options.value = value:
\* its ValueAsText property, its "value_changed" listeners installed by
\* install_synchronisation, and the function its clone property leads to
addMultiStateValueDiscreteType(value) ==
    [value |-> value, valueAsText |-> findValueAsText(value), synchronisations |-> 1,
     clone |-> "new_clone", generation |-> 0]

\* install_synchronisation(variable): one more listener of "value_changed" that
\* sets the ValueAsText of that variable
install_synchronisation(variable) ==
    [variable EXCEPT !.synchronisations = @ + 1]

\* UAVariable.prototype.clone: a new variable with the value and the properties
\* of the one cloned, without its event listeners, whose clone is the one of
\* the prototype
old_clone(variable) ==
    [value |-> variable.value, valueAsText |-> variable.valueAsText,
     synchronisations |-> 0, clone |-> "old_clone",
     generation |-> variable.generation + 1]

\* new_clone: the clone of the prototype, then install_synchronisation on it
new_clone(variable) == install_synchronisation(old_clone(variable))

\* variable.clone(): new_clone where it was assigned, the prototype's otherwise
clone(variable) ==
    IF variable.clone = "new_clone" THEN new_clone(variable) ELSE old_clone(variable)

\* the variable takes value and emits "value_changed": every listener installed
\* by install_synchronisation sets ValueAsText to findValueAsText(value)
value_changed(variable, value) ==
    [variable EXCEPT !.value = value,
                     !.valueAsText = IF variable.synchronisations > 0
                                     THEN findValueAsText(value) ELSE @]

\* the monitored item and its environment, which the variables leave alone
monitoredItem ==
    <<attributeId, indexRange, filter, monitoringMode, clientHandle,
      samplingInterval, discardOldest, queueSize, timestampsToReturn, queue,
      overflow, oldDataValue, samplingId, value_changed_callback,
      attribute_changed_callback, is_sampling, timers, valueListeners,
      attrListeners, registryCount, pendingReads, sampleInFlight, nodeValue,
      sourceReadings, paramRequests, last>>

Clone(n) ==
    /\ Len(nodes) < MaxNodes
    /\ nodes' = Append(nodes, clone(nodes[n]))
    /\ UNCHANGED monitoredItem

ValueChanged(n, value) ==
    /\ nodes' = [nodes EXCEPT ![n] = value_changed(@, value)]
    /\ UNCHANGED monitoredItem

\* an address space with one multi-state value discrete variable, next to an
\* item of ShrinkScenario
InitNodes ==
    /\ sourceReadings = ShrinkScenario.readings
    /\ paramRequests = ShrinkScenario.requests
    /\ \E request \in ShrinkScenario.requests :
            /\ _validate_parameters(request.options)
            /\ Created(request, "Value", "none", NoFilter)
    /\ Idle
    /\ \E value \in NodeValues : nodes = <<addMultiStateValueDiscreteType(value)>>

NextNodes ==
    \/ \E n \in DOMAIN nodes : Clone(n)
    \/ \E n \in DOMAIN nodes, value \in NodeValues : ValueChanged(n, value)

SpecNodes == InitNodes /\ [][NextNodes]_vars

\* C31: after each value_changed event on a multi-state value discrete variable
\* or on a variable obtained from it by clone, a clone of a clone included, the
\* ValueAsText of that variable is the display name of the enum entry whose
\* value equals the new value, or Invalid when no entry has that value.
C31_ValueAsTextFollowsValue ==
    [][\A n \in DOMAIN nodes, value \in NodeValues :
        ValueChanged(n, value) =>
            LET matching == {i \in DOMAIN EnumValues :
                                EnumValues[i].value = <<0, value>>}
            IN  IF matching = {}
                THEN nodes'[n].valueAsText = "Invalid"
                ELSE \E i \in matching :
                        nodes'[n].valueAsText = EnumValues[i].displayName]_vars

====
